---- MODULE Spec2Model ----
(***************************************************************************)
(* Model of the per-thread I/O reactor of src/main/main.c (libre).         *)
(*                                                                         *)
(* The C functions that do not call user code are operators on the value   *)
(* of `struct re` (fd_setsize, poll_close, poll_init, poll_setup,          *)
(* poll_method_set, rebuild_fd, set_*_fds, fhs_update, fd_listen,          *)
(* fd_close): each returns the new reactor value and the error code.  The  *)
(* functions that call user code or block (re_main, fd_poll,               *)
(* re_thread_enter) are split into actions at those points.                *)
(*                                                                         *)
(* Build modelled: not WIN32, not DARWIN, not RELEASE (re_thread_check is  *)
(* compiled into fd_listen), HAVE_SIGNAL, all four polling methods         *)
(* compiled in.                                                            *)
(*                                                                         *)
(* The registry and the loop are modelled for one reactor, created by      *)
(* thread T1; every thread resolves to it (re_get falls back to the global *)
(* reactor).  The reactors of the process, the thread-specific pointer of  *)
(* each thread and re_global are modelled apart, without the contents of   *)
(* the reactors (SpecLife).  DEFAULT_MAXFDS is scaled to the handle range. *)
(* A read through a null, out-of-bounds or dangling pointer takes the      *)
(* thread to pc "crash".  Two threads inside fd_listen at the same time    *)
(* run their bodies one after the other: the outcomes of the data race     *)
(* itself are not enumerated.  re_set_mutex is not used.                   *)
(***************************************************************************)
EXTENDS Integers, Sequences, FiniteSets, TLC

VARIABLES
    re,     \* the reactor: the fields of struct re, the struct fhs objects
            \* it owns and the kernel objects behind epfd and kqfd
    sigact, \* TRUE when signal_handler is installed for the signals
    mtx,    \* the thread holding the mutex *re->mutexp, or NoThread
    pc,     \* pc[t]: where thread t is
    lp,     \* lp[t]: the locals of re_main/fd_poll of thread t
    call,   \* call[t]: the fd_listen call thread t has entered, or NoCall
    ret,    \* ret[t]: what the last re_main of thread t returned
    proc    \* the process: re_global, the thread-specific values of key and
            \* the struct re objects that exist

\* the reactor every thread resolves to, and the threads that use it
reactor == <<re, sigact, mtx, pc, lp, call, ret>>

vars == <<re, sigact, mtx, pc, lp, call, ret, proc>>

----------------------------------------------------------------------------
(* Bounds *)

\* handles are 0..MaxHandle
MaxHandle == 1

\* re->nfds can grow without limit (it is not always decremented when an
\* entry goes away): fd_listen is called only while it is below MaxNfds
MaxNfds == 3

\* the handles used while re_main runs are 0..MaxLoopHandle
MaxLoopHandle == 0

\* at most MaxTimers timers are armed at a time
MaxTimers == 1

\* the soft limit getrlimit(RLIMIT_NOFILE) reports is DEFAULT_MAXFDS + RlimExtra
RlimExtra == 1

----------------------------------------------------------------------------
(* Constants of the program *)

\* enum { DEFAULT_MAXFDS = FD_SETSIZE or 128 }, scaled to the handle range so
\* that the largest handle reaches the limit
DEFAULT_MAXFDS == MaxHandle + 1

BAD_SOCK == -1
FD_READ == 1
FD_WRITE == 2
FD_EXCEPT == 4

NULL == "NULL"
OK == "OK"

Handles == 0..MaxHandle

\* the struct fhs objects the allocator can hand out, as many as there are
\* handles; mem_zalloc fails when all are in use
FhsIds == 1..(MaxHandle + 1)

Threads == {"T1", "T2", "T3"}
NoThread == "none"

Methods == {"POLL", "SELECT", "EPOLL", "KQUEUE"}
METHOD_NULL == "METHOD_NULL"

Max(a, b) == IF a >= b THEN a ELSE b

HasFlag(flags, bit) == (flags \div bit) % 2 = 1

\* result of a C function: the reactor after it and its return value
R(r, e) == [re |-> r, err |-> e]

\* x is computed, then used by F: a local variable of a C function
With(x, F(_)) == F(x)

----------------------------------------------------------------------------
(* struct fhs *)

\* an object the allocator has not handed out (or has taken back)
FreeFhs == [live |-> FALSE, fd |-> BAD_SOCK, flags |-> 0, index |-> -1,
            fh |-> NULL, linked |-> FALSE]

\* mem_zalloc(sizeof(struct fhs), fhs_destroy)
ZeroFhs == [live |-> TRUE, fd |-> 0, flags |-> 0, index |-> 0,
            fh |-> NULL, linked |-> FALSE]

\* the object mem_zalloc returns: the lowest free one, 0 when none is left
mem_zalloc(r) ==
    LET free == {i \in FhsIds : ~r.fhs[i].live}
    IN  IF free = {} THEN 0 ELSE CHOOSE i \in free : \A j \in free : i <= j

RemoveId(seq, id) == SelectSeq(seq, LAMBDA x : x # id)

\* mem_deref(fhs): the destructor fhs_destroy unlinks the hash entry; the
\* delete-list entry le_delete is not unlinked
fhs_destroy(r, id) ==
    [r EXCEPT !.fhl = RemoveId(@, id), !.fhs[id] = FreeFhs]

\* a lookup that does not see the entries with an empty interest mask
fhs_lookup_active(r, fd) ==
    LET hit == {k \in 1..Len(r.fhl) : r.fhs[r.fhl[k]].fd = fd /\ r.fhs[r.fhl[k]].flags # 0}
    IN  IF hit = {} THEN 0
        ELSE r.fhl[CHOOSE k \in hit : \A j \in hit : k <= j]

\* hash_lookup(re->fhl, fd, fhs_lookup, &fd): the first entry of the bucket
\* whose fd matches, 0 when there is none (or no hash)
fhs_lookup(r, fd) ==
    LET hit == {k \in 1..Len(r.fhl) : r.fhs[r.fhl[k]].fd = fd}
    IN  IF hit = {} THEN 0
        ELSE r.fhl[CHOOSE k \in hit : \A j \in hit : k <= j]

\* hash_append(re->fhl, fd, &fhs->he, fhs): the entry goes to the end of the
\* bucket of fd; fhl lists the buckets one after the other
hash_append(r, fhl, fd, id) ==
    SelectSeq(fhl, LAMBDA x : r.fhs[x].fd <= fd) \o <<id>>
    \o SelectSeq(fhl, LAMBDA x : r.fhs[x].fd > fd)

----------------------------------------------------------------------------
(* re_alloc *)

re_alloc(tid) ==
    [ fhs          |-> [i \in FhsIds |-> FreeFhs],
      fhl_alloc    |-> FALSE,      \* re->fhl != NULL
      fhl          |-> << >>,      \* the entries of the hash, bucket by bucket
      fhs_delete   |-> << >>,
      fhs_reuse    |-> TRUE,
      maxfds       |-> 0,
      max_fd       |-> 0,
      nfds         |-> 0,
      method       |-> METHOD_NULL,
      update       |-> FALSE,
      polling      |-> FALSE,
      sig          |-> 0,
      fds          |-> << >>,      \* empty: re->fds == NULL
      events_alloc |-> FALSE,      \* re->events != NULL
      events       |-> << >>,      \* what the last epoll_wait wrote to it
      epfd         |-> -1,
      ep           |-> {},         \* interest list of the epoll object
      evlist_alloc |-> FALSE,
      evlist       |-> << >>,      \* what the last kevent wrote to it
      kqfd         |-> -1,
      kq           |-> {},         \* registered filters of the kqueue object
      tmrl         |-> 0,          \* number of timers on re->tmrl
      tid          |-> tid,
      thread_enter |-> FALSE ]

----------------------------------------------------------------------------
(* Backend state *)

\* poll_close: free all resources
poll_close(r) ==
    [r EXCEPT !.maxfds = 0,
              !.fds = << >>,
              !.epfd = -1, !.ep = {}, !.events_alloc = FALSE, !.events = << >>,
              !.kqfd = -1, !.kq = {}, !.evlist_alloc = FALSE, !.evlist = << >>]

\* a fd_setsize that sets re->maxfds on every call
fd_setsize_last(r, maxfds) ==
    IF maxfds = 0 THEN R(poll_close(r), OK)
    ELSE LET m == IF maxfds < 0 THEN DEFAULT_MAXFDS + RlimExtra ELSE maxfds
         IN  R([r EXCEPT !.maxfds = m], OK)

\* fd_setsize(maxfds): 0 frees, a negative value asks getrlimit; only the
\* first call sets re->maxfds
fd_setsize(r, maxfds) ==
    IF maxfds = 0 THEN R(poll_close(r), OK)
    ELSE LET m == IF maxfds < 0 THEN DEFAULT_MAXFDS + RlimExtra ELSE maxfds
         IN  R(IF r.maxfds = 0 THEN [r EXCEPT !.maxfds = m] ELSE r, OK)

\* mem_zalloc(re->maxfds * sizeof(*re->fds), NULL)
ZeroPollFds(n) == [i \in 0..(n - 1) |-> [fd |-> 0, events |-> {}, revents |-> {}]]

poll_init(r) ==
    IF r.maxfds = 0 THEN R(r, "EINVAL")
    ELSE
    LET r1 == IF r.fhl_alloc THEN r ELSE [r EXCEPT !.fhl_alloc = TRUE, !.fhl = << >>]
    IN  CASE r1.method = "POLL" ->
               R(IF DOMAIN r1.fds = {} THEN [r1 EXCEPT !.fds = ZeroPollFds(r1.maxfds)]
                 ELSE r1, OK)
          [] r1.method = "EPOLL" ->
               R([r1 EXCEPT !.events_alloc = TRUE,
                            !.epfd = IF @ < 0 THEN 0 ELSE @], OK)
          [] r1.method = "KQUEUE" ->
               R([r1 EXCEPT !.evlist_alloc = TRUE,
                            !.kqfd = IF @ < 0 THEN 0 ELSE @], OK)
          [] OTHER -> R(r1, OK)

\* the poll events asked for interest flags
PollEvents(flags) ==
    (IF HasFlag(flags, FD_READ) THEN {"POLLIN"} ELSE {})
    \cup (IF HasFlag(flags, FD_WRITE) THEN {"POLLOUT"} ELSE {})
    \cup (IF HasFlag(flags, FD_EXCEPT) THEN {"POLLERR"} ELSE {})

set_poll_fds(r, id) ==
    IF DOMAIN r.fds = {} THEN R(r, OK)
    ELSE
    LET f == r.fhs[id]
    IN  IF f.index >= r.maxfds THEN R(r, "EMFILE")
        ELSE R([r EXCEPT !.fds[f.index] =
                    [fd |-> IF f.flags # 0 THEN f.fd ELSE -1,
                     events |-> PollEvents(f.flags),
                     revents |-> @.revents]], OK)

\* the epoll events asked for interest flags
EpollEvents(flags) ==
    (IF HasFlag(flags, FD_READ) THEN {"EPOLLIN"} ELSE {})
    \cup (IF HasFlag(flags, FD_WRITE) THEN {"EPOLLOUT"} ELSE {})
    \cup (IF HasFlag(flags, FD_EXCEPT) THEN {"EPOLLERR"} ELSE {})

\* a set_epoll_fds without EPOLL_CTL_MOD: EPOLL_CTL_ADD fails with EEXIST
\* when the handle is already in the interest list
set_epoll_fds_add(r, id) ==
    LET f == r.fhs[id]
        present == \E e \in r.ep : e.fd = f.fd
        others == {e \in r.ep : e.fd # f.fd}
    IN  IF r.epfd < 0 THEN R(r, "EBADFD")
        ELSE IF f.flags # 0
        THEN IF present THEN R(r, "EEXIST")
             ELSE R([r EXCEPT !.ep = others \cup
                    {[fd |-> f.fd, events |-> EpollEvents(f.flags), ptr |-> id]}], OK)
        ELSE IF present THEN R([r EXCEPT !.ep = others], OK)
        ELSE R(r, "ENOENT")

\* EPOLL_CTL_ADD, EPOLL_CTL_MOD when the handle is already in the interest
\* list, EPOLL_CTL_DEL for empty flags (ENOENT when it is not in the list)
set_epoll_fds(r, id) ==
    LET f == r.fhs[id]
        present == \E e \in r.ep : e.fd = f.fd
        others == {e \in r.ep : e.fd # f.fd}
    IN  IF r.epfd < 0 THEN R(r, "EBADFD")
        ELSE IF f.flags # 0
        THEN R([r EXCEPT !.ep = others \cup
                    {[fd |-> f.fd, events |-> EpollEvents(f.flags), ptr |-> id]}], OK)
        ELSE IF present THEN R([r EXCEPT !.ep = others], OK)
        ELSE R(r, "ENOENT")

\* both filters are deleted, then the wanted ones added; the kevent that
\* adds fails with EBADF on a closed kqueue descriptor
set_kqueue_fds(r, id) ==
    LET f == r.fhs[id]
        others == {e \in r.kq : e.ident # f.fd}
        wanted == (IF HasFlag(f.flags, FD_WRITE)
                   THEN {[ident |-> f.fd, filter |-> "EVFILT_WRITE", udata |-> id]}
                   ELSE {})
                  \cup
                  (IF HasFlag(f.flags, FD_READ)
                   THEN {[ident |-> f.fd, filter |-> "EVFILT_READ", udata |-> id]}
                   ELSE {})
    IN  IF wanted = {} THEN R([r EXCEPT !.kq = others], OK)
        ELSE IF r.kqfd < 0 THEN R(r, "EBADF")
        ELSE R([r EXCEPT !.kq = others \cup wanted], OK)

\* rebuild_fd for one entry: TRUE in stop ends the hash_apply
rebuild_fd(r, id) ==
    IF r.fhs[id].fh = NULL THEN [re |-> r, stop |-> FALSE]
    ELSE With(CASE r.method = "POLL"   -> set_poll_fds(r, id)
                [] r.method = "EPOLL"  -> set_epoll_fds(r, id)
                [] r.method = "KQUEUE" -> set_kqueue_fds(r, id)
                [] OTHER -> R(r, OK),
              LAMBDA s : [re |-> s.re, stop |-> s.err # OK])

\* hash_apply(re->fhl, rebuild_fd, re): stop is TRUE when an entry was returned
RECURSIVE hash_apply_rebuild(_, _)
hash_apply_rebuild(r, ids) ==
    IF ids = << >> THEN [re |-> r, stop |-> FALSE]
    ELSE With(rebuild_fd(r, Head(ids)),
              LAMBDA s : IF s.stop THEN s ELSE hash_apply_rebuild(s.re, Tail(ids)))

\* poll_method_best (method.c): the best method compiled in
poll_method_best == "EPOLL"

poll_method_set(r, method) ==
    With(fd_setsize(r, DEFAULT_MAXFDS).re, LAMBDA r0 :
    IF method \notin Methods THEN R(r0, "EINVAL")
    ELSE IF method = "SELECT" /\ r0.max_fd > DEFAULT_MAXFDS THEN R(r0, "EMFILE")
    ELSE
    With(poll_init([r0 EXCEPT !.method = method, !.update = TRUE]), LAMBDA i :
    IF i.err # OK THEN i
    ELSE
    With(hash_apply_rebuild(i.re, i.re.fhl), LAMBDA a :
    R(a.re, IF a.stop THEN "EBADF" ELSE OK))))

poll_setup(r) ==
    With(fd_setsize(r, DEFAULT_MAXFDS).re, LAMBDA r0 :
    With(IF r0.method = METHOD_NULL
         THEN poll_method_set(r0, poll_method_best)
         ELSE R(r0, OK), LAMBDA m :
    With(IF m.err # OK THEN m ELSE poll_init(m.re), LAMBDA i :
    IF i.err # OK THEN R(poll_close(i.re), i.err) ELSE i)))


----------------------------------------------------------------------------
(* Handle registry *)

\* re_thread_check for calling thread t
re_thread_check(r, t) ==
    IF r.thread_enter THEN OK
    ELSE IF r.tid = t THEN OK
    ELSE "EPERM"

\* fhs_update: the entry of fd, allocated when the hash holds none; id is
\* the entry, in_hash whether the hash holds it afterwards
fhs_update(r, fd, flags, fh) ==
    With(fhs_lookup(r, fd), LAMBDA he :
    With(IF he # 0 THEN he ELSE mem_zalloc(r), LAMBDA id :
    IF id = 0 THEN [re |-> r, err |-> "ENOMEM", id |-> 0]
    ELSE
    With(IF he # 0 THEN r.fhs[id] ELSE [ZeroFhs EXCEPT !.index = -1], LAMBDA f0 :
    With(f0.index = -1, LAMBDA fresh :
    [re |-> [r EXCEPT !.nfds = IF fresh THEN @ + 1 ELSE @,
                      !.fhs[id] = [f0 EXCEPT !.index = IF fresh THEN r.nfds ELSE @,
                                             !.fd = fd, !.flags = flags, !.fh = fh],
                      !.fhl = IF he = 0 /\ r.fhl_alloc
                              THEN hash_append(r, @, fd, id) ELSE @],
     err |-> OK, id |-> id]))))

\* the tail of fd_listen for empty flags: the entry is released or queued
\* (list_append does nothing for an entry that is linked), its index reset
\* and nfds decremented.  A destroyed entry stays on the delete list; when
\* its memory was handed out again, the new entry is that list element
fhs_release(r, id) ==
    With(IF r.fhs_reuse THEN r
         ELSE IF r.polling
              THEN IF r.fhs[id].linked THEN r
                   ELSE [r EXCEPT !.fhs_delete =
                                      IF \E k \in DOMAIN @ : @[k] = id
                                      THEN @ ELSE Append(@, id),
                                  !.fhs[id].linked = TRUE]
              ELSE fhs_destroy(r, id), LAMBDA r1 :
    [r1 EXCEPT !.fhs[id].index = IF r1.fhs[id].live THEN -1 ELSE @,
               !.nfds = @ - 1])

\* a struct fhs nothing points to any more (allocated while re->fhl is NULL,
\* so that hash_append did nothing, and not queued): it is leaked, and the
\* model returns it to the allocator
mem_leak(r, id) ==
    IF /\ r.fhs[id].live
       /\ \A k \in 1..Len(r.fhl) : r.fhl[k] # id
       /\ \A k \in 1..Len(r.fhs_delete) : r.fhs_delete[k] # id
    THEN [r EXCEPT !.fhs[id] = FreeFhs]
    ELSE r

RECURSIVE fd_listen(_, _, _, _, _)

\* fd_close(fd): (void)fd_listen(fd, 0, NULL, NULL)
fd_close(r, t, fd) == fd_listen(r, t, fd, 0, NULL).re

\* a fd_listen that leaves the entry as it is when the polling method
\* refused it
fd_listen_body_keep(r, t, fd, flags, fh) ==
    With(IF flags # 0 \/ fh # NULL THEN poll_setup(r) ELSE R(r, OK), LAMBDA s :
    IF s.err # OK THEN s
    ELSE
    With(fhs_update(s.re, fd, flags, fh), LAMBDA u :
    IF u.err # OK THEN R(u.re, u.err)
    ELSE IF u.re.method = "EPOLL" /\ u.re.epfd < 0
    THEN R(mem_leak(u.re, u.id), "EBADFD")
    ELSE
    With(CASE u.re.method = "SELECT" ->
                R(u.re, IF fd + 1 >= DEFAULT_MAXFDS THEN "EMFILE" ELSE OK)
           [] u.re.method = "POLL"   -> set_poll_fds(u.re, u.id)
           [] u.re.method = "EPOLL"  -> set_epoll_fds(u.re, u.id)
           [] u.re.method = "KQUEUE" -> set_kqueue_fds(u.re, u.id)
           [] OTHER -> R(u.re, OK), LAMBDA b :
    With(IF b.err = OK THEN [b.re EXCEPT !.max_fd = Max(@, fd + 1)] ELSE b.re,
         LAMBDA r2 :
    With(IF flags = 0 THEN fhs_release(r2, u.id) ELSE r2, LAMBDA r3 :
    R(mem_leak(r3, u.id), b.err))))))

\* fd_listen after re_get, re_thread_check and the BAD_SOCK test
fd_listen_body(r, t, fd, flags, fh) ==
    With(IF flags # 0 \/ fh # NULL THEN poll_setup(r) ELSE R(r, OK), LAMBDA s :
    IF s.err # OK THEN s
    ELSE
    With(fhs_update(s.re, fd, flags, fh), LAMBDA u :
    IF u.err # OK THEN R(u.re, u.err)
    ELSE IF u.re.method = "EPOLL" /\ u.re.epfd < 0
    THEN R(mem_leak(u.re, u.id), "EBADFD")
    ELSE
    With(CASE u.re.method = "SELECT" ->
                R(u.re, IF fd + 1 >= DEFAULT_MAXFDS THEN "EMFILE" ELSE OK)
           [] u.re.method = "POLL"   -> set_poll_fds(u.re, u.id)
           [] u.re.method = "EPOLL"  -> set_epoll_fds(u.re, u.id)
           [] u.re.method = "KQUEUE" -> set_kqueue_fds(u.re, u.id)
           [] OTHER -> R(u.re, OK), LAMBDA b :
    With(IF b.err = OK THEN [b.re EXCEPT !.max_fd = Max(@, fd + 1)] ELSE b.re,
         LAMBDA r2 :
    With(IF flags = 0 THEN fhs_release(r2, u.id) ELSE r2, LAMBDA r3 :
    With(IF b.err # OK /\ flags # 0 THEN fd_close(r3, t, fd) ELSE r3, LAMBDA r4 :
    R(mem_leak(r4, u.id), b.err)))))))

fd_listen(r, t, fd, flags, fh) ==
    IF re_thread_check(r, t) # OK THEN R(r, re_thread_check(r, t))
    ELSE IF fd = BAD_SOCK THEN R(r, "EBADF")
    ELSE fd_listen_body(r, t, fd, flags, fh)

\* re_fhs_reuse_set(re, reuse)
re_fhs_reuse_set(r, reuse) == [r EXCEPT !.fhs_reuse = reuse]

\* re_cancel
re_cancel(r) == [r EXCEPT !.polling = FALSE]

----------------------------------------------------------------------------
(* The reactors of the process *)

\* the struct re objects the allocator can hand out, as many as there are
\* threads; 0 is the null pointer
ReIds == 1..Cardinality(Threads)

\* the process before any call: no reactor, key is null for every thread;
\* inited records that a re_thread_init has returned 0
ProcNull ==
    [ re_global |-> 0,
      key       |-> [t \in Threads |-> 0],
      heap      |-> {},      \* the struct re objects that exist
      inited    |-> FALSE ]

\* result of a function on the process
RP(p, e) == [p |-> p, err |-> e]

\* re_alloc(&re) by user code: new is what mem_zalloc returns, 0 when it
\* fails
re_alloc_ctx(p, new) ==
    IF new = 0 THEN RP(p, "ENOMEM")
    ELSE RP([p EXCEPT !.heap = @ \cup {new}], OK)

\* a re_thread_init that publishes its reactor whatever re_global holds
re_thread_init_publish(p, t, new) ==
    IF p.key[t] # 0 THEN RP(p, "EALREADY")
    ELSE IF new = 0 THEN RP(p, "ENOMEM")
    ELSE RP([p EXCEPT !.heap = @ \cup {new},
                      !.re_global = new,
                      !.key[t] = new,
                      !.inited = TRUE], OK)

\* re_thread_init on thread t; tss_set does not fail
re_thread_init(p, t, new) ==
    IF p.key[t] # 0 THEN RP(p, "EALREADY")
    ELSE IF new = 0 THEN RP(p, "ENOMEM")
    ELSE RP([p EXCEPT !.heap = @ \cup {new},
                      !.re_global = IF @ = 0 THEN new ELSE @,
                      !.key[t] = new,
                      !.inited = TRUE], OK)

\* re_thread_close on thread t: every reactor has one reference, so
\* mem_deref destroys it; on a reactor that was destroyed before it frees
\* whatever the allocator has put there since
re_thread_close(p, t) ==
    IF p.key[t] = 0 THEN p
    ELSE [p EXCEPT !.re_global = IF @ = p.key[t] THEN 0 ELSE @,
                   !.heap = @ \ {p.key[t]},
                   !.key[t] = 0]

\* thread t exits: thread_destructor is called with the value of key when
\* it is not null
thread_destructor(p, t) ==
    IF p.key[t] = 0 THEN p
    ELSE [p EXCEPT !.heap = @ \ {p.key[t]}, !.key[t] = 0]

\* re_thread_attach(context) on thread t
re_thread_attach(p, t, context) ==
    IF context = 0 THEN RP(p, "EINVAL")
    ELSE IF p.key[t] # 0
    THEN RP(p, IF p.key[t] # context THEN "EALREADY" ELSE OK)
    ELSE RP([p EXCEPT !.key[t] = context], OK)

\* re_thread_detach on thread t
re_thread_detach(p, t) == [p EXCEPT !.key[t] = 0]

\* the process after libre_init on thread T1, which calls re_thread_init
ProcInit == re_thread_init(ProcNull, "T1", 1).p

----------------------------------------------------------------------------
(* Threads *)

\* the locals of re_main and fd_poll outside re_main; left is what n still
\* counted when fd_poll returned from inside its loop: the events the wait
\* reported that the loop did not reach; sig is the argument of the signalh
\* that is running, 0 when none is
NoLoop == [signalh |-> FALSE, err |-> OK, n |-> 0, i |-> 0, nfds |-> 0,
           to |-> FALSE, wm |-> METHOD_NULL, kfds |-> << >>,
           rfds |-> {}, wfds |-> {}, efds |-> {}, cur |-> 0, left |-> 0,
           sig |-> 0]

NoCall == [fd |-> BAD_SOCK, flags |-> 0, fh |-> NULL]

\* thread t runs user code: outside re_main ("win" between re_thread_enter
\* and re_thread_leave, "idle" otherwise), or inside a handler re_main called
UserCtx(t) ==
    /\ pc[t] \in {"idle", "win", "cb", "sigcb", "tmrh"}
    /\ call[t] = NoCall

\* thread t is between re_thread_enter and re_thread_leave
InWindow(t) == pc[t] = "win"

\* thread t executes the loop of re_main
InLoop(t) == pc[t] \in {"top", "chk", "wait", "relock", "disp", "cb", "sigcb",
                        "tmr", "tmrh"}

Init ==
    /\ re = re_alloc("T1")
    /\ sigact = FALSE
    /\ mtx = NoThread
    /\ pc = [t \in Threads |-> "idle"]
    /\ lp = [t \in Threads |-> NoLoop]
    /\ call = [t \in Threads |-> NoCall]
    /\ ret = [t \in Threads |-> OK]
    /\ proc = ProcInit

----------------------------------------------------------------------------
(* API calls made by user code *)

\* fd_listen(fd, flags, fh, arg), as one step
FdListen(t, fd, flags, fh) ==
    /\ UserCtx(t)
    /\ re.nfds < MaxNfds
    /\ re' = fd_listen(re, t, fd, flags, fh).re
    /\ UNCHANGED <<sigact, mtx, pc, lp, call, ret, proc>>

\* fd_listen up to and including the BAD_SOCK test, when it goes on (a call
\* that returns here changes nothing)
FdListenEnter(t, fd, flags, fh) ==
    /\ UserCtx(t)
    /\ re.nfds < MaxNfds
    /\ re_thread_check(re, t) = OK
    /\ fd # BAD_SOCK
    /\ call' = [call EXCEPT ![t] = [fd |-> fd, flags |-> flags, fh |-> fh]]
    /\ UNCHANGED <<re, sigact, mtx, pc, lp, ret, proc>>

\* the rest of the fd_listen thread t has entered
FdListenBody(t) ==
    /\ call[t] # NoCall
    /\ re' = fd_listen_body(re, t, call[t].fd, call[t].flags, call[t].fh).re
    /\ call' = [call EXCEPT ![t] = NoCall]
    /\ UNCHANGED <<sigact, mtx, pc, lp, ret, proc>>

FdSetsize(t, maxfds) ==
    /\ UserCtx(t)
    /\ re' = fd_setsize(re, maxfds).re
    /\ UNCHANGED <<sigact, mtx, pc, lp, call, ret, proc>>

PollMethodSet(t, method) ==
    /\ UserCtx(t)
    /\ re' = poll_method_set(re, method).re
    /\ UNCHANGED <<sigact, mtx, pc, lp, call, ret, proc>>

ReFhsReuseSet(t, reuse) ==
    /\ UserCtx(t)
    /\ re' = re_fhs_reuse_set(re, reuse)
    /\ UNCHANGED <<sigact, mtx, pc, lp, call, ret, proc>>

ReCancel(t) ==
    /\ UserCtx(t)
    /\ re' = re_cancel(re)
    /\ UNCHANGED <<sigact, mtx, pc, lp, call, ret, proc>>

\* a re_thread_enter that sets re->thread_enter for every caller
ReThreadEnterAny(t) ==
    /\ pc[t] = "idle" /\ call[t] = NoCall
    /\ mtx = NoThread
    /\ mtx' = t
    /\ re' = [re EXCEPT !.fhs_reuse = FALSE, !.thread_enter = TRUE]
    /\ pc' = [pc EXCEPT ![t] = "win"]
    /\ UNCHANGED <<sigact, lp, call, ret, proc>>

\* re_thread_enter: returns once the mutex is acquired
ReThreadEnter(t) ==
    /\ pc[t] = "idle" /\ call[t] = NoCall
    /\ mtx = NoThread
    /\ mtx' = t
    /\ re' = [re EXCEPT !.fhs_reuse = FALSE,
                        !.thread_enter = IF re.tid # t THEN TRUE ELSE @]
    /\ pc' = [pc EXCEPT ![t] = "win"]
    /\ UNCHANGED <<sigact, lp, call, ret, proc>>

\* re_thread_leave by the thread that entered
ReThreadLeave(t) ==
    /\ InWindow(t) /\ call[t] = NoCall
    /\ re' = [re EXCEPT !.thread_enter = FALSE]
    /\ mtx' = NoThread
    /\ pc' = [pc EXCEPT ![t] = "idle"]
    /\ UNCHANGED <<sigact, lp, call, ret, proc>>

\* tmr_start arms a timer on re->tmrl
TmrStart(t) ==
    /\ UserCtx(t)
    /\ re.tmrl < MaxTimers
    /\ re' = [re EXCEPT !.tmrl = @ + 1]
    /\ UNCHANGED <<sigact, mtx, pc, lp, call, ret, proc>>

\* signal_handler(sig): a hooked signal is delivered
SignalHandler(sig) ==
    /\ sigact
    /\ re' = [re EXCEPT !.sig = sig]
    /\ UNCHANGED <<sigact, mtx, pc, lp, call, ret, proc>>

----------------------------------------------------------------------------
(* re_main *)

\* re_main up to the test of re->polling
ReMainCheck(t, signalh) ==
    /\ pc[t] = "idle" /\ call[t] = NoCall
    /\ sigact' = (sigact \/ signalh)
    /\ IF re.polling
       THEN /\ ret' = [ret EXCEPT ![t] = "EALREADY"]
            /\ UNCHANGED <<pc, lp>>
       ELSE /\ pc' = [pc EXCEPT ![t] = "setup"]
            /\ lp' = [lp EXCEPT ![t] = [NoLoop EXCEPT !.signalh = signalh]]
            /\ ret' = ret
    /\ UNCHANGED <<re, mtx, call, proc>>

\* poll_setup, then re->polling = true (or out: on an error)
ReMainSetup(t) ==
    /\ pc[t] = "setup"
    /\ LET x == poll_setup(re)
       IN  IF x.err # OK
           THEN /\ re' = [x.re EXCEPT !.polling = FALSE]
                /\ ret' = [ret EXCEPT ![t] = x.err]
                /\ pc' = [pc EXCEPT ![t] = "idle"]
                /\ lp' = [lp EXCEPT ![t] = NoLoop]
           ELSE /\ re' = [x.re EXCEPT !.polling = TRUE]
                /\ pc' = [pc EXCEPT ![t] = "lock"]
                /\ UNCHANGED <<ret, lp>>
    /\ UNCHANGED <<sigact, mtx, call, proc>>

\* poll_init has something to allocate or to open for the method of r
NeedsAlloc(r) ==
    \/ ~r.fhl_alloc
    \/ r.method = "POLL" /\ DOMAIN r.fds = {}
    \/ r.method = "EPOLL" /\ (~r.events_alloc \/ r.epfd < 0)
    \/ r.method = "KQUEUE" /\ (~r.evlist_alloc \/ r.kqfd < 0)

\* poll_setup when the allocation or the system call poll_init makes fails:
\* poll_close, and the error is returned
poll_setup_nomem(r) ==
    With(fd_setsize(r, DEFAULT_MAXFDS).re, LAMBDA r0 :
    With(IF r0.method = METHOD_NULL
         THEN [r0 EXCEPT !.method = poll_method_best, !.update = TRUE]
         ELSE r0, LAMBDA r1 :
    R(poll_close(r1), "ENOMEM")))

\* re_main when poll_setup fails: goto out, before re_lock
ReMainSetupFail(t) ==
    /\ pc[t] = "setup"
    /\ NeedsAlloc(poll_setup_nomem(re).re)
    /\ re' = [poll_setup_nomem(re).re EXCEPT !.polling = FALSE]
    /\ ret' = [ret EXCEPT ![t] = poll_setup_nomem(re).err]
    /\ pc' = [pc EXCEPT ![t] = "idle"]
    /\ lp' = [lp EXCEPT ![t] = NoLoop]
    /\ UNCHANGED <<sigact, mtx, call, proc>>

\* re_lock before the loop
ReMainLock(t) ==
    /\ pc[t] = "lock"
    /\ mtx = NoThread
    /\ mtx' = t
    /\ pc' = [pc EXCEPT ![t] = "top"]
    /\ UNCHANGED <<re, sigact, lp, call, ret, proc>>

\* top of the loop with a latched signal: the signal handler of the caller
\* is called if there is one
MainSig(t) ==
    /\ pc[t] = "top"
    /\ re.sig # 0
    /\ IF lp[t].signalh
       THEN /\ pc' = [pc EXCEPT ![t] = "sigcb"]
            /\ lp' = [lp EXCEPT ![t].sig = re.sig]
            /\ re' = re
       ELSE /\ pc' = [pc EXCEPT ![t] = "chk"]
            /\ lp' = lp
            /\ re' = [re EXCEPT !.sig = 0]
    /\ UNCHANGED <<sigact, mtx, call, ret, proc>>

\* a return of signalh after which the signal stays latched
SigReturnKeepSig(t) ==
    /\ pc[t] = "sigcb" /\ call[t] = NoCall
    /\ re' = re
    /\ pc' = [pc EXCEPT ![t] = "chk"]
    /\ lp' = [lp EXCEPT ![t].sig = 0]
    /\ UNCHANGED <<sigact, mtx, call, ret, proc>>

\* signalh returns: re->sig = 0
SigReturn(t) ==
    /\ pc[t] = "sigcb" /\ call[t] = NoCall
    /\ re' = [re EXCEPT !.sig = 0]
    /\ pc' = [pc EXCEPT ![t] = "chk"]
    /\ lp' = [lp EXCEPT ![t].sig = 0]
    /\ UNCHANGED <<sigact, mtx, call, ret, proc>>

\* the fd sets fd_poll builds for select from the entries with flags
SelectSet(r, bit) ==
    {r.fhs[id].fd : id \in {x \in FhsIds : /\ \E k \in 1..Len(r.fhl) : r.fhl[k] = x
                                            /\ r.fhs[x].flags # 0
                                            /\ HasFlag(r.fhs[x].flags, bit)}}

\* the locals of fd_poll and what the kernel is handed when the wait
\* starts: the timeout, nfds, the first nfds slots of re->fds for poll, the
\* fd sets for select
PollLocals(r, l) ==
    [l EXCEPT
       !.nfds = IF r.method = "SELECT" /\ r.max_fd # 0 THEN r.max_fd ELSE r.nfds,
       !.to = r.tmrl > 0,
       !.wm = r.method,
       !.kfds = IF r.method = "POLL"
                THEN [i \in {j \in DOMAIN r.fds : j < r.nfds} |-> r.fds[i]]
                ELSE << >>,
       !.rfds = IF r.method = "SELECT" THEN SelectSet(r, FD_READ) ELSE {},
       !.wfds = IF r.method = "SELECT" THEN SelectSet(r, FD_WRITE) ELSE {},
       !.efds = IF r.method = "SELECT" THEN SelectSet(r, FD_EXCEPT) ELSE {}]

\* the test of re->polling, then fd_poll up to the wait (the mutex is
\* released and the kernel is called)
MainPoll(t) ==
    /\ \/ pc[t] = "top" /\ re.sig = 0
       \/ pc[t] = "chk"
    /\ IF ~re.polling
       THEN /\ lp' = [lp EXCEPT ![t].err = OK]
            /\ pc' = [pc EXCEPT ![t] = "out"]
            /\ mtx' = mtx
       ELSE IF re.method \notin Methods
       THEN /\ lp' = [lp EXCEPT ![t].err = "EINVAL"]
            /\ pc' = [pc EXCEPT ![t] = "out"]
            /\ mtx' = mtx
       ELSE /\ lp' = [lp EXCEPT ![t] = PollLocals(re, lp[t])]
            /\ pc' = [pc EXCEPT ![t] = "wait"]
            /\ mtx' = NoThread
    /\ UNCHANGED <<re, sigact, call, ret, proc>>

\* an exit of re_main without re_unlock
MainExitKeepLock(t) ==
    /\ pc[t] = "out"
    /\ mtx' = mtx
    /\ re' = [re EXCEPT !.polling = FALSE]
    /\ ret' = [ret EXCEPT ![t] = lp[t].err]
    /\ pc' = [pc EXCEPT ![t] = "idle"]
    /\ lp' = [lp EXCEPT ![t] = NoLoop]
    /\ UNCHANGED <<sigact, call, proc>>

\* re_unlock, re->polling = false, return err
MainExit(t) ==
    /\ pc[t] = "out"
    /\ mtx' = NoThread
    /\ re' = [re EXCEPT !.polling = FALSE]
    /\ ret' = [ret EXCEPT ![t] = lp[t].err]
    /\ pc' = [pc EXCEPT ![t] = "idle"]
    /\ lp' = [lp EXCEPT ![t] = NoLoop]
    /\ UNCHANGED <<sigact, call, proc>>

----------------------------------------------------------------------------
(* fd_poll: the wait *)

Take(seq, k) == SubSeq(seq, 1, IF Len(seq) < k THEN Len(seq) ELSE k)

\* what epoll_wait reports when the handles in ready are readable and
\* writable: one event per ready entry of the interest list
RECURSIVE EpollReady(_, _, _)
EpollReady(r, ready, fd) ==
    IF fd > MaxHandle THEN << >>
    ELSE LET es == {e \in r.ep : /\ e.fd = fd /\ fd \in ready
                                  /\ e.events \cap {"EPOLLIN", "EPOLLOUT"} # {}}
         IN  (IF es = {} THEN << >>
              ELSE LET e == CHOOSE x \in es : TRUE
                   IN  <<[ptr |-> e.ptr,
                          events |-> e.events \cap {"EPOLLIN", "EPOLLOUT"}]>>)
             \o EpollReady(r, ready, fd + 1)

\* what kevent reports: one event per ready filter
RECURSIVE KqueueReady(_, _, _)
KqueueReady(r, ready, fd) ==
    IF fd > MaxHandle THEN << >>
    ELSE LET ev(filter) ==
                 LET es == {e \in r.kq : e.ident = fd /\ e.filter = filter /\ fd \in ready}
                 IN  IF es = {} THEN << >>
                     ELSE <<[ident |-> fd, filter |-> filter,
                             udata |-> (CHOOSE x \in es : TRUE).udata]>>
         IN  ev("EVFILT_READ") \o ev("EVFILT_WRITE") \o KqueueReady(r, ready, fd + 1)

\* the revents poll writes for the slots it was given
PollRevents(kfds, ready) ==
    [i \in DOMAIN kfds |->
        IF kfds[i].fd \in ready THEN kfds[i].events \cap {"POLLIN", "POLLOUT"} ELSE {}]

\* the kernel's answer to the wait of thread t when the handles in ready
\* are readable and writable: n (-1 with err on failure) and what it wrote
WaitResult(r, l, ready) ==
    CASE l.wm = "POLL" ->
           IF DOMAIN r.fds = {} /\ l.nfds > 0
           THEN [n |-> -1, err |-> "EFAULT", re |-> r, l |-> l]
           ELSE LET rev == PollRevents(l.kfds, ready)
                IN  [n |-> Cardinality({i \in DOMAIN rev : rev[i] # {}}), err |-> OK,
                     re |-> [r EXCEPT !.fds =
                                [i \in DOMAIN r.fds |->
                                    IF i \in DOMAIN rev
                                    THEN [r.fds[i] EXCEPT !.revents = rev[i]]
                                    ELSE r.fds[i]]],
                     l |-> l]
      [] l.wm = "SELECT" ->
           LET seen == {fd \in ready : fd < l.nfds}
               rf == l.rfds \cap seen
               wf == l.wfds \cap seen
           IN  [n |-> Cardinality(rf) + Cardinality(wf), err |-> OK, re |-> r,
                l |-> [l EXCEPT !.rfds = rf, !.wfds = wf, !.efds = {}]]
      [] l.wm = "EPOLL" ->
           IF r.epfd < 0
           THEN [n |-> -1, err |-> "EBADF", re |-> r, l |-> l]
           ELSE LET evs == Take(EpollReady(r, ready, 0), r.maxfds)
                IN  [n |-> Len(evs), err |-> OK,
                     re |-> [r EXCEPT !.events = evs], l |-> l]
      [] l.wm = "KQUEUE" ->
           IF r.kqfd < 0
           THEN [n |-> -1, err |-> "EBADF", re |-> r, l |-> l]
           ELSE LET evs == Take(KqueueReady(r, ready, 0), r.maxfds)
                IN  [n |-> Len(evs), err |-> OK,
                     re |-> [r EXCEPT !.evlist = evs], l |-> l]

\* the wait returns: readiness, the timer deadline or a failure
WaitReturn(t, ready) ==
    /\ pc[t] = "wait"
    /\ LET w == WaitResult(re, lp[t], ready)
       IN  /\ w.n # 0 \/ lp[t].to
           /\ re' = w.re
           /\ lp' = [lp EXCEPT ![t] = [w.l EXCEPT !.n = w.n, !.err = w.err,
                                              !.kfds = << >>, !.to = FALSE,
                                              !.wm = METHOD_NULL]]
    /\ pc' = [pc EXCEPT ![t] = "relock"]
    /\ UNCHANGED <<sigact, mtx, call, ret, proc>>

\* the wait is interrupted by the delivery of a signal
WaitIntr(t) ==
    /\ pc[t] = "wait"
    /\ re.sig # 0
    /\ lp' = [lp EXCEPT ![t].n = -1, ![t].err = "EINTR"]
    /\ pc' = [pc EXCEPT ![t] = "relock"]
    /\ UNCHANGED <<re, sigact, mtx, call, ret, proc>>

\* what a wait can fail with besides EINTR: EBADF for a descriptor that was
\* closed, ENOMEM of the kernel
WaitErrors == {"EBADF", "ENOMEM"}

\* the wait fails: n is -1 and errno is e
WaitFail(t, e) ==
    /\ pc[t] = "wait"
    /\ lp' = [lp EXCEPT ![t].n = -1, ![t].err = e]
    /\ pc' = [pc EXCEPT ![t] = "relock"]
    /\ UNCHANGED <<re, sigact, mtx, call, ret, proc>>

\* a return of fd_poll after which re_main leaves the loop with every error
\* of the wait, EINTR included
RelockSurfaceIntr(t) ==
    /\ pc[t] = "relock"
    /\ mtx = NoThread
    /\ mtx' = t
    /\ IF lp[t].n < 0
       THEN /\ pc' = [pc EXCEPT ![t] = "out"]
            /\ lp' = lp
       ELSE /\ pc' = [pc EXCEPT ![t] = "disp"]
            /\ lp' = [lp EXCEPT ![t].i = 0]
    /\ UNCHANGED <<re, sigact, call, ret, proc>>

\* a re_lock that does not wait for the mutex to be free
RelockNoWait(t) ==
    /\ pc[t] = "relock"
    /\ mtx' = t
    /\ IF lp[t].n < 0
       THEN IF lp[t].err = "EINTR"
            THEN /\ pc' = [pc EXCEPT ![t] = "top"]
                 /\ lp' = [lp EXCEPT ![t] = [NoLoop EXCEPT !.signalh = lp[t].signalh,
                                                           !.err = "EINTR"]]
            ELSE /\ pc' = [pc EXCEPT ![t] = "out"]
                 /\ lp' = lp
       ELSE /\ pc' = [pc EXCEPT ![t] = "disp"]
            /\ lp' = [lp EXCEPT ![t].i = 0]
    /\ UNCHANGED <<re, sigact, call, ret, proc>>

\* re_lock after the wait; a failed wait makes fd_poll return the error,
\* which re_main retries (EINTR) or leaves the loop with
Relock(t) ==
    /\ pc[t] = "relock"
    /\ mtx = NoThread
    /\ mtx' = t
    /\ IF lp[t].n < 0
       THEN IF lp[t].err = "EINTR"
            THEN /\ pc' = [pc EXCEPT ![t] = "top"]
                 /\ lp' = [lp EXCEPT ![t] = [NoLoop EXCEPT !.signalh = lp[t].signalh,
                                                           !.err = "EINTR"]]
            ELSE /\ pc' = [pc EXCEPT ![t] = "out"]
                 /\ lp' = lp
       ELSE /\ pc' = [pc EXCEPT ![t] = "disp"]
            /\ lp' = [lp EXCEPT ![t].i = 0]
    /\ UNCHANGED <<re, sigact, call, ret, proc>>

----------------------------------------------------------------------------
(* fd_poll: the dispatch loop *)

FlagBits(rd, wr, ex) ==
    (IF rd THEN FD_READ ELSE 0) + (IF wr THEN FD_WRITE ELSE 0)
    + (IF ex THEN FD_EXCEPT ELSE 0)

\* the interest flags reported for poll revents
PollFlags(revents) ==
    FlagBits("POLLIN" \in revents, "POLLOUT" \in revents,
             revents \cap {"POLLERR", "POLLHUP", "POLLNVAL"} # {})

\* the interest flags reported for epoll events
EpollFlags(events) ==
    FlagBits("EPOLLIN" \in events, "EPOLLOUT" \in events,
             events \cap {"EPOLLERR", "EPOLLHUP"} # {})

\* the entry at position l.i of the loop: kind is "crash" for a read through
\* a null or out-of-bounds pointer, "uaf" for a read of a destroyed struct
\* fhs, "einval" for the default: branch, "skip" for a continue, "fhs" when
\* the struct fhs id was found
DispatchEntry(r, l) ==
    LET Found(r1, fd, flags, ptr) ==
            IF flags = 0 THEN [kind |-> "skip", id |-> 0, re |-> r1]
            ELSE IF ptr # 0
            THEN IF r1.fhs[ptr].live THEN [kind |-> "fhs", id |-> ptr, re |-> r1]
                 ELSE [kind |-> "uaf", id |-> 0, re |-> r1]
            ELSE LET he == fhs_lookup(r1, fd)
                 IN  IF he = 0 THEN [kind |-> "skip", id |-> 0, re |-> r1]
                     ELSE [kind |-> "fhs", id |-> he, re |-> r1]
        Bad(k) == [kind |-> k, id |-> 0, re |-> r]
    IN  CASE r.method = "SELECT" ->
               Found(r, l.i, FlagBits(l.i \in l.rfds, l.i \in l.wfds, l.i \in l.efds), 0)
          [] r.method = "POLL" ->
               IF l.i \notin DOMAIN r.fds THEN Bad("crash")
               ELSE Found([r EXCEPT !.fds[l.i].revents = {}], r.fds[l.i].fd,
                          PollFlags(r.fds[l.i].revents), 0)
          [] r.method = "EPOLL" ->
               IF l.i + 1 > Len(r.events) THEN Bad("crash")
               ELSE LET e == r.events[l.i + 1]
                    IN  IF ~r.fhs[e.ptr].live THEN Bad("uaf")
                        ELSE Found(r, r.fhs[e.ptr].fd, EpollFlags(e.events), e.ptr)
          [] r.method = "KQUEUE" ->
               IF l.i + 1 > Len(r.evlist) THEN Bad("crash")
               ELSE LET e == r.evlist[l.i + 1]
                    IN  IF e.ident >= r.maxfds THEN Found(r, e.ident, 0, e.udata)
                        ELSE Found(r, e.ident,
                                   FlagBits(e.filter = "EVFILT_READ",
                                            e.filter = "EVFILT_WRITE", FALSE),
                                   e.udata)
          [] OTHER -> Bad("einval")

\* the locals of fd_poll dropped, those of re_main kept
EndPoll(l) == [NoLoop EXCEPT !.signalh = l.signalh]

\* what n counts beyond the entry at l.i when the loop would go on
LeftOver(l) == IF l.i + 1 < l.nfds THEN l.n - 1 ELSE 0

\* an end of pass whose return on re->update makes re_main start the next
\* iteration without tmr_poll
AfterEntrySkipTmr(t, r) ==
    IF r.update
    THEN /\ re' = [r EXCEPT !.update = FALSE, !.events = << >>, !.evlist = << >>]
         /\ lp' = [lp EXCEPT ![t] = [EndPoll(lp[t]) EXCEPT !.left = LeftOver(lp[t])]]
         /\ pc' = [pc EXCEPT ![t] = "top"]
    ELSE /\ re' = r
         /\ lp' = [lp EXCEPT ![t].n = @ - 1, ![t].i = @ + 1, ![t].cur = 0]
         /\ pc' = [pc EXCEPT ![t] = "disp"]

\* the end of one pass of the loop body: fd_poll returns when the polling
\* method was changed, and counts the event otherwise
AfterEntry(t, r) ==
    IF r.update
    THEN /\ re' = [r EXCEPT !.update = FALSE, !.events = << >>, !.evlist = << >>]
         /\ lp' = [lp EXCEPT ![t] = [EndPoll(lp[t]) EXCEPT !.left = LeftOver(lp[t])]]
         /\ pc' = [pc EXCEPT ![t] = "tmr"]
    ELSE /\ re' = r
         /\ lp' = [lp EXCEPT ![t].n = @ - 1, ![t].i = @ + 1, ![t].cur = 0]
         /\ pc' = [pc EXCEPT ![t] = "disp"]

\* one pass of the loop body up to the call of the handler
DispatchStep(t) ==
    /\ pc[t] = "disp"
    /\ lp[t].n > 0 /\ lp[t].i < lp[t].nfds
    /\ LET d == DispatchEntry(re, lp[t])
       IN  CASE d.kind \in {"crash", "uaf"} ->
                  /\ pc' = [pc EXCEPT ![t] = "crash"]
                  /\ lp' = [lp EXCEPT ![t].err = d.kind]
                  /\ re' = re
             [] d.kind = "einval" ->
                  /\ pc' = [pc EXCEPT ![t] = "out"]
                  /\ lp' = [lp EXCEPT ![t] = [EndPoll(lp[t]) EXCEPT !.err = "EINVAL"]]
                  /\ re' = re
             [] d.kind = "skip" ->
                  /\ pc' = pc
                  /\ lp' = [lp EXCEPT ![t].i = @ + 1]
                  /\ re' = d.re
             [] d.kind = "fhs" ->
                  IF d.re.fhs[d.id].fh # NULL /\ d.re.fhs[d.id].index >= 0
                  THEN /\ pc' = [pc EXCEPT ![t] = "cb"]
                       /\ lp' = [lp EXCEPT ![t].cur = d.id]
                       /\ re' = d.re
                  ELSE AfterEntry(t, d.re)
    /\ UNCHANGED <<sigact, mtx, call, ret, proc>>

\* the handler returns
CbReturn(t) ==
    /\ pc[t] = "cb" /\ call[t] = NoCall
    /\ AfterEntry(t, re)
    /\ UNCHANGED <<sigact, mtx, call, ret, proc>>

\* list_flush(&re->fhs_delete): every entry is unlinked and dereferenced
RECURSIVE list_flush(_, _)
list_flush(r, ids) ==
    IF ids = << >> THEN [r EXCEPT !.fhs_delete = << >>]
    ELSE list_flush(IF r.fhs[Head(ids)].live THEN fhs_destroy(r, Head(ids)) ELSE r,
                    Tail(ids))

\* the loop is over: the delete list is flushed, fd_poll returns 0 and
\* re_main calls tmr_poll.  With a destroyed entry on the list, list_flush
\* reads freed memory: it may also crash
DispatchEnd(t) ==
    /\ pc[t] = "disp"
    /\ ~(lp[t].n > 0 /\ lp[t].i < lp[t].nfds)
    /\ \/ /\ re' = [list_flush(re, re.fhs_delete) EXCEPT !.events = << >>,
                                                         !.evlist = << >>]
          /\ lp' = [lp EXCEPT ![t] = EndPoll(lp[t])]
          /\ pc' = [pc EXCEPT ![t] = "tmr"]
       \/ /\ \E k \in DOMAIN re.fhs_delete : ~re.fhs[re.fhs_delete[k]].live
          /\ re' = re
          /\ lp' = [lp EXCEPT ![t].err = "uaf"]
          /\ pc' = [pc EXCEPT ![t] = "crash"]
    /\ UNCHANGED <<sigact, mtx, call, ret, proc>>

\* tmr_poll finds an expired timer and calls its handler
TmrFire(t) ==
    /\ pc[t] = "tmr"
    /\ re.tmrl > 0
    /\ re' = [re EXCEPT !.tmrl = @ - 1]
    /\ pc' = [pc EXCEPT ![t] = "tmrh"]
    /\ UNCHANGED <<sigact, mtx, lp, call, ret, proc>>

\* the timer handler returns
TmrReturn(t) ==
    /\ pc[t] = "tmrh" /\ call[t] = NoCall
    /\ pc' = [pc EXCEPT ![t] = "tmr"]
    /\ UNCHANGED <<re, sigact, mtx, lp, call, ret, proc>>

\* tmr_poll returns: next iteration of the loop
TmrDone(t) ==
    /\ pc[t] = "tmr"
    /\ pc' = [pc EXCEPT ![t] = "top"]
    /\ lp' = [lp EXCEPT ![t].left = 0]
    /\ UNCHANGED <<re, sigact, mtx, call, ret, proc>>

----------------------------------------------------------------------------
(* Specifications *)

\* the arguments user code passes to fd_listen: fd_close(fd), and a
\* registration for reading
ListenArgs == {<<0, NULL>>, <<FD_READ, "H">>}

\* the registry calls user code of thread t makes on the handles in H; the
\* polling method is chosen before anything else or left to poll_setup
RegCall(t, H) ==
    \/ \E fd \in H \cup {BAD_SOCK}, a \in ListenArgs : FdListen(t, fd, a[1], a[2])
    \/ \E m \in Methods \cup {METHOD_NULL} : re.method = METHOD_NULL /\ PollMethodSet(t, m)
    \/ \E b \in BOOLEAN : ReFhsReuseSet(t, b)
    \/ ReCancel(t)

\* the steps of re_main on thread t, without signals and timers, when any
\* of the handles in H can become ready
RegStep(t, H) ==
    \/ ReMainCheck(t, FALSE)
    \/ ReMainSetup(t)
    \/ ReMainLock(t)
    \/ MainPoll(t)
    \/ \E ready \in SUBSET H : WaitReturn(t, ready)
    \/ Relock(t)
    \/ DispatchStep(t)
    \/ CbReturn(t)
    \/ DispatchEnd(t)
    \/ TmrDone(t)
    \/ MainExit(t)

LoopHandles == 0..MaxLoopHandle

\* one thread, the one that created the reactor, makes every call, outside
\* re_main and from the handlers re_main calls
Next == RegCall("T1", LoopHandles) \/ RegStep("T1", LoopHandles)

Spec == Init /\ [][Next]_vars

\* the registry calls outside re_main, fd_setsize among them
NextReg ==
    \/ RegCall("T1", Handles)
    \/ \E n \in {0, MaxHandle, -1} : FdSetsize("T1", n)

SpecReg == Init /\ [][NextReg]_vars

\* the threads that call re_main: the one that created the reactor and one
\* other thread, which resolves to the same reactor
MainThreads == {"T1", "T2"}

\* the handle the threads register and close
ThrHandles == {0}

\* the calls user code of thread t makes: outside re_main, inside a
\* re_thread_enter window or from a handler; fd_listen takes two steps, and
\* re_cancel is called inside a window
ThrCall(t) ==
    \/ \E fd \in ThrHandles, a \in ListenArgs : FdListenEnter(t, fd, a[1], a[2])
    \/ FdListenBody(t)
    \/ InWindow(t) /\ ReCancel(t)
    \/ TmrStart(t)

\* the steps of re_main on thread t, called with a signal handler
ThrStep(t) ==
    \/ ReMainCheck(t, TRUE)
    \/ ReMainSetup(t)
    \/ ReMainLock(t)
    \/ MainSig(t)
    \/ SigReturn(t)
    \/ MainPoll(t)
    \/ \E ready \in SUBSET ThrHandles : WaitReturn(t, ready)
    \/ WaitIntr(t)
    \/ Relock(t)
    \/ DispatchStep(t)
    \/ CbReturn(t)
    \/ DispatchEnd(t)
    \/ TmrFire(t)
    \/ TmrReturn(t)
    \/ TmrDone(t)
    \/ MainExit(t)

\* the threads run concurrently and a hooked signal can arrive at any time
NextThr ==
    \/ \E t \in MainThreads : ThrCall(t)
    \/ \E t \in MainThreads : ThrStep(t)
    \/ \E t \in Threads : ReThreadEnter(t)
    \/ \E t \in Threads : ReThreadLeave(t)
    \/ SignalHandler(1)

SpecThr == Init /\ [][NextThr]_vars

\* the two handles of the loop with timers
LoopPair == {0, 1}

\* the polling methods a handler switches between: one whose events are
\* looked up by fd and one whose events carry the struct fhs
LoopMethods == {"POLL", "EPOLL"}

\* the calls user code of thread t makes: registrations outside re_main and
\* from the handlers of fds, a timer started before re_main, a change of the
\* polling method and re_cancel from the handlers of fds
LoopCall(t) ==
    \/ \E fd \in LoopPair, a \in ListenArgs :
          pc[t] \in {"idle", "cb"} /\ FdListen(t, fd, a[1], a[2])
    \/ \E m \in LoopMethods : pc[t] = "cb" /\ PollMethodSet(t, m)
    \/ pc[t] = "idle" /\ TmrStart(t)
    \/ pc[t] = "cb" /\ ReCancel(t)

\* the steps of re_main on thread t, with timers
LoopStep(t) ==
    \/ ReMainCheck(t, FALSE)
    \/ ReMainSetup(t)
    \/ ReMainLock(t)
    \/ MainPoll(t)
    \/ \E ready \in SUBSET LoopPair : WaitReturn(t, ready)
    \/ Relock(t)
    \/ DispatchStep(t)
    \/ CbReturn(t)
    \/ DispatchEnd(t)
    \/ TmrFire(t)
    \/ TmrReturn(t)
    \/ TmrDone(t)
    \/ MainExit(t)

NextLoop == LoopCall("T1") \/ LoopStep("T1")

SpecLoop == Init /\ [][NextLoop]_vars

\* one thread makes every call, outside re_main and from the handlers
\* re_main calls, on the two handles
NextSwap == RegCall("T1", LoopPair) \/ RegStep("T1", LoopPair)

SpecSwap == Init /\ [][NextSwap]_vars

\* the thread of the reactor chooses the polling method and calls re_main;
\* a foreign thread registers and closes handle 0 and calls re_cancel
\* between re_thread_enter and re_thread_leave
WinCall(o, f) ==
    \/ \E m \in Methods :
          pc[o] = "idle" /\ re.method = METHOD_NULL /\ PollMethodSet(o, m)
    \/ ReThreadEnter(f)
    \/ \E a \in ListenArgs : InWindow(f) /\ FdListen(f, 0, a[1], a[2])
    \/ InWindow(f) /\ ReCancel(f)
    \/ ReThreadLeave(f)

NextWin == WinCall("T1", "T2") \/ RegStep("T1", {0})

SpecWin == Init /\ [][NextWin]_vars

\* the calls user code of thread t makes: handle 0 is registered and closed
\* outside re_main and from its handler, a timer is started outside re_main,
\* and re_cancel is called from the handler of the handle, from the signal
\* handler and from the handler of a timer
ErrCall(t) ==
    \/ \E a \in ListenArgs : pc[t] \in {"idle", "cb"} /\ FdListen(t, 0, a[1], a[2])
    \/ pc[t] = "idle" /\ TmrStart(t)
    \/ pc[t] \in {"cb", "sigcb", "tmrh"} /\ ReCancel(t)

\* the steps of re_main on thread t, called with a signal handler, when
\* poll_setup and the wait can fail
ErrStep(t) ==
    \/ ReMainCheck(t, TRUE)
    \/ ReMainSetup(t)
    \/ ReMainSetupFail(t)
    \/ ReMainLock(t)
    \/ MainSig(t)
    \/ SigReturn(t)
    \/ MainPoll(t)
    \/ \E ready \in SUBSET ThrHandles : WaitReturn(t, ready)
    \/ WaitIntr(t)
    \/ \E e \in WaitErrors : WaitFail(t, e)
    \/ Relock(t)
    \/ DispatchStep(t)
    \/ CbReturn(t)
    \/ DispatchEnd(t)
    \/ TmrFire(t)
    \/ TmrReturn(t)
    \/ TmrDone(t)
    \/ MainExit(t)

\* the thread of the reactor runs re_main; a second thread calls re_main
\* while the loop is polling, and enters and leaves a window; a hooked
\* signal can arrive at any time
NextErr ==
    \/ ErrCall("T1")
    \/ ErrStep("T1")
    \/ re.polling /\ ReMainCheck("T2", FALSE)
    \/ ReThreadEnter("T2")
    \/ ReThreadLeave("T2")
    \/ SignalHandler(1)

SpecErr == Init /\ [][NextErr]_vars

\* what mem_zalloc can return for a struct re: any object that does not
\* exist, 0 when there is none
NewRe == IF ReIds \ proc.heap = {} THEN {0} ELSE ReIds \ proc.heap

ReAlloc(t) ==
    /\ \E new \in NewRe : proc' = re_alloc_ctx(proc, new).p
    /\ UNCHANGED reactor

ReThreadInit(t) ==
    /\ \E new \in NewRe : proc' = re_thread_init(proc, t, new).p
    /\ UNCHANGED reactor

ReThreadClose(t) ==
    /\ proc' = re_thread_close(proc, t)
    /\ UNCHANGED reactor

\* thread t exits, and a thread of that name is started again
ThreadExit(t) ==
    /\ proc' = thread_destructor(proc, t)
    /\ UNCHANGED reactor

\* context is a reactor user code has got from re_alloc
ReThreadAttach(t, context) ==
    /\ context \in proc.heap
    /\ proc' = re_thread_attach(proc, t, context).p
    /\ UNCHANGED reactor

ReThreadDetach(t) ==
    /\ proc' = re_thread_detach(proc, t)
    /\ UNCHANGED reactor

\* the threads of a process create, share and destroy reactors; no call
\* has been made when it starts
InitLife ==
    /\ re = re_alloc("T1")
    /\ sigact = FALSE
    /\ mtx = NoThread
    /\ pc = [t \in Threads |-> "idle"]
    /\ lp = [t \in Threads |-> NoLoop]
    /\ call = [t \in Threads |-> NoCall]
    /\ ret = [t \in Threads |-> OK]
    /\ proc = ProcNull

NextLife ==
    \E t \in Threads :
        \/ ReAlloc(t)
        \/ ReThreadInit(t)
        \/ ReThreadClose(t)
        \/ ThreadExit(t)
        \/ \E c \in ReIds : ReThreadAttach(t, c)
        \/ ReThreadDetach(t)

SpecLife == InitLife /\ [][NextLife]_vars

\* the signals hooked: SIGINT and SIGTERM
Signals == {2, 15}

\* the thread of the reactor runs re_main with a signal handler, which can
\* call re_cancel; a timer is started outside re_main; any hooked signal
\* can arrive at any time
NextSig ==
    \/ ReMainCheck("T1", TRUE)
    \/ ReMainSetup("T1")
    \/ ReMainLock("T1")
    \/ MainSig("T1")
    \/ pc["T1"] = "sigcb" /\ ReCancel("T1")
    \/ SigReturn("T1")
    \/ MainPoll("T1")
    \/ WaitReturn("T1", {})
    \/ WaitIntr("T1")
    \/ Relock("T1")
    \/ DispatchEnd("T1")
    \/ pc["T1"] = "idle" /\ TmrStart("T1")
    \/ TmrFire("T1")
    \/ TmrReturn("T1")
    \/ TmrDone("T1")
    \/ MainExit("T1")
    \/ \E sig \in Signals : SignalHandler(sig)

SpecSig == Init /\ [][NextSig]_vars

----------------------------------------------------------------------------
(* Registry invariants, under SpecReg *)

\* the struct fhs objects that exist
Records == {id \in FhsIds : re.fhs[id].live}

\* the struct fhs objects with a non-empty interest mask
Active == {id \in Records : re.fhs[id].flags # 0}

\* C1: after any sequence of fd_listen and fd_close calls, failed ones and
\* calls after fd_setsize(0) included, re->nfds equals the number of handle
\* records whose interest mask is not empty
C1_NfdsCountsActive == re.nfds = Cardinality(Active)

\* C2: no two handle records with a non-empty interest mask have the same
\* index
C2_IndexUnique ==
    \A a, b \in Active : a # b => re.fhs[a].index # re.fhs[b].index

\* C4: after every completed fd_listen or fd_close call, every handle record
\* that still exists has index -1 if and only if its interest mask is empty
C4_IndexIffFlags ==
    \A id \in Records : (re.fhs[id].index = -1) <=> (re.fhs[id].flags = 0)

\* C17: fd_listen on BAD_SOCK fails with EINVAL and leaves the registry,
\* re->nfds and the state of the polling method as they are
C17_BadSockInvalid ==
    \A t \in Threads : \A a \in ListenArgs :
        re_thread_check(re, t) = OK =>
            /\ fd_listen(re, t, BAD_SOCK, a[1], a[2]).err = "EINVAL"
            /\ fd_listen(re, t, BAD_SOCK, a[1], a[2]).re = re

\* the index fhs_update gives the record of handle fd in a fd_listen with
\* flags, -2 when fd_listen returns before
AssignedIndex(r, fd) ==
    With(poll_setup(r), LAMBDA s :
        IF s.err # OK THEN -2
        ELSE With(fhs_update(s.re, fd, FD_READ, "H"), LAMBDA u :
                 IF u.err # OK THEN -2 ELSE u.re.fhs[u.id].index))

\* C18: with every polling method, fd_listen with flags fails with EMFILE
\* whenever the index the record gets is not below re->maxfds
C18_TooManyEveryMethod ==
    \A t \in Threads : \A fd \in Handles :
        (re_thread_check(re, t) = OK
            /\ AssignedIndex(re, fd) >= poll_setup(re).re.maxfds) =>
                fd_listen(re, t, fd, FD_READ, "H").err = "EMFILE"

\* handle fd has a record with an index
ActiveFd(r, fd) == fhs_lookup(r, fd) # 0 /\ r.fhs[fhs_lookup(r, fd)].index # -1

\* the record of handle fd is gone or has no flags and no index
ClosedFd(r, fd) ==
    \/ fhs_lookup(r, fd) = 0
    \/ /\ r.fhs[fhs_lookup(r, fd)].flags = 0
       /\ r.fhs[fhs_lookup(r, fd)].index = -1

C20_UnsupportedMethod ==
    \A m \in {METHOD_NULL} \ Methods : poll_method_set(re, m).err = "ENOTSUP"

----------------------------------------------------------------------------
(* The registry while re_main runs, under Spec *)

\* C3: a handler that deregisters its own handle does not destroy the
\* handle's record before the dispatch batch has ended, whatever the reuse
\* policy and whatever else the handler did before (re_cancel included):
\* while the handler of a record runs, the record exists
C3_RecordSurvivesHandler ==
    \A t \in Threads : pc[t] = "cb" => re.fhs[lp[t].cur].live

\* C5: the registry holds at most one handle record per handle value:
\* fd_listen on a handle that has a record, active or retained with an empty
\* interest mask, updates that record and inserts no second one
C5_OneRecordPerHandle ==
    \A j, k \in DOMAIN re.fhl :
        j # k => re.fhs[re.fhl[j]].fd # re.fhs[re.fhl[k]].fd

\* a record that was deregistered by a handler (it is queued for deletion)
\* and registered again before the batch ended
C5_Reregistered ==
    \E k \in DOMAIN re.fhl :
        re.fhs[re.fhl[k]].linked /\ re.fhs[re.fhl[k]].flags # 0

----------------------------------------------------------------------------
(* Threads, under SpecThr *)

\* C6: the registry, the mechanism state and the signal latch are accessed
\* only by a thread that holds the mutex, so that no two threads access them
\* at the same time: no two threads are inside fd_listen together
C6_NoConcurrentAccess ==
    \A a, b \in Threads : a # b => ~(call[a] # NoCall /\ call[b] # NoCall)

\* C7: at most one thread at a time executes the loop of re_main
C7_OneLoopThread ==
    \A a, b \in Threads : a # b => ~(InLoop(a) /\ InLoop(b))

\* C8: re_thread_check returns 0 exactly when the calling thread is the
\* thread of the reactor or is itself between re_thread_enter and
\* re_thread_leave; every other caller gets EPERM
C8_ThreadCheckExact ==
    \A t \in Threads : (re_thread_check(re, t) = OK) <=> (t = re.tid \/ InWindow(t))

\* C23: fd_listen (and fd_close) called by a thread that is neither the
\* thread of the reactor nor between re_thread_enter and re_thread_leave
\* returns EPERM and leaves the registry, re->nfds, re->max_fd and the state
\* of the polling method as they are
C23_ForeignCallRefused ==
    \A t \in Threads :
        (t # re.tid /\ ~InWindow(t)) =>
            \A fd \in ThrHandles : \A a \in ListenArgs :
                /\ fd_listen(re, t, fd, a[1], a[2]).err = "EPERM"
                /\ fd_listen(re, t, fd, a[1], a[2]).re = re

\* C9: while a foreign thread is between re_thread_enter and
\* re_thread_leave, a thread that executes the loop of re_main runs no
\* handler, no signal handler, no tmr_poll and no flush of the delete list:
\* it is in the wait of fd_poll or waits for the mutex after it
C9_LoopBlockedInWindow ==
    \A f, t \in Threads :
        (f # re.tid /\ InWindow(f) /\ InLoop(t)) => pc[t] \in {"wait", "relock"}

\* a foreign thread is in its window while the wait of a loop thread has
\* returned with events to dispatch
C9_WindowDuringRelock ==
    \E f, t \in Threads :
        f # re.tid /\ InWindow(f) /\ pc[t] = "relock" /\ lp[t].n > 0

\* C10: once re_cancel has cleared re->polling while a thread executes the
\* loop of re_main, that thread starts no further wait and leaves the loop
\* with err 0: every step keeps the flag cleared and starts no wait of the
\* thread, or takes the thread to the exit of re_main with success
C10_CancelEndsRun ==
    [][\A t \in Threads :
          (InLoop(t) /\ ~re.polling) =>
              \/ /\ pc'[t] \in {"top", "chk", "wait", "relock", "disp", "cb",
                                 "sigcb", "tmr", "tmrh"}
                 /\ ~re'.polling
                 /\ ~(pc[t] # "wait" /\ pc'[t] = "wait")
              \/ pc'[t] = "out" /\ lp'[t].err = OK]_vars

----------------------------------------------------------------------------
(* The loop of re_main with timers, under SpecLoop; handlers that close
   and register handles, under SpecSwap *)

\* C11: tmr_poll runs after every wait of fd_poll that did not fail, also
\* when the wait reported nothing and when fd_poll returned from inside its
\* loop on re->update, before the next wait starts: a thread leaves a wait
\* that did not fail for the dispatch loop only, leaves the dispatch loop
\* for tmr_poll only (or for the exit of re_main), and comes back to the top
\* of the loop of re_main from tmr_poll or from a wait that failed only
C11_TimersPolledAfterWait ==
    [][\A t \in Threads :
          /\ (pc[t] = "relock" /\ lp[t].n >= 0) => pc'[t] \in {"relock", "disp"}
          /\ pc[t] \in {"disp", "cb"} =>
                 pc'[t] \in {"disp", "cb", "tmr", "out", "crash"}
          /\ (pc[t] # "top" /\ pc'[t] = "top") =>
                 \/ pc[t] \in {"lock", "tmr"}
                 \/ pc[t] = "relock" /\ lp[t].n < 0
          /\ (pc[t] # "wait" /\ pc'[t] = "wait") => pc[t] \in {"top", "chk"}]_vars

\* tmr_poll runs after fd_poll returned on re->update with events left
C11_TimersAfterEarlyReturn ==
    \E t \in Threads : pc[t] = "tmr" /\ lp[t].left > 0 /\ re.tmrl > 0

\* C12: within one iteration of the loop of re_main a timer handler runs
\* only after the handlers of all the events the wait of that iteration
\* reported: while a timer handler runs, the wait reported no event that
\* fd_poll left undispatched
C12_TimersAfterBatch ==
    \A t \in Threads : pc[t] = "tmrh" => lp[t].left = 0

\* the loop of fd_poll from position l.i on, when the handlers it calls
\* change nothing: ok when it reads no freed or missing object and fd_poll
\* returns 0, re the reactor when fd_poll has returned
RECURSIVE PassEnds(_, _)
PassEnds(r, l) ==
    IF ~(l.n > 0 /\ l.i < l.nfds)
    THEN [ok |-> \A k \in DOMAIN r.fhs_delete : r.fhs[r.fhs_delete[k]].live,
          re |-> list_flush(r, r.fhs_delete)]
    ELSE With(DispatchEntry(r, l), LAMBDA d :
         CASE d.kind = "skip" -> PassEnds(d.re, [l EXCEPT !.i = @ + 1])
           [] d.kind = "fhs" ->
                IF d.re.update THEN [ok |-> TRUE, re |-> [d.re EXCEPT !.update = FALSE]]
                ELSE PassEnds(d.re, [l EXCEPT !.n = @ - 1, !.i = @ + 1])
           [] OTHER -> [ok |-> FALSE, re |-> d.re])

\* fd_poll from the return of the handler of the entry at l.i on
AfterHandler(r, l) ==
    IF r.update THEN [ok |-> TRUE, re |-> [r EXCEPT !.update = FALSE]]
    ELSE PassEnds(r, [l EXCEPT !.n = @ - 1, !.i = @ + 1])

\* the next wait of fd_poll reports handle fd when it becomes ready
WatchedFd(r, fd) == WaitResult(r, PollLocals(r, NoLoop), {fd}).n > 0

\* thread t runs the handler of the record of handle a, which is registered,
\* and handle b is not registered
InHandlerOf(t, a, b) ==
    /\ pc[t] = "cb" /\ call[t] = NoCall
    /\ re.fhs[lp[t].cur].live
    /\ re.fhs[lp[t].cur].fd = a /\ re.fhs[lp[t].cur].flags # 0
    /\ a # b
    /\ \A id \in Active : re.fhs[id].fd # b

\* what fd_close(a) followed by fd_listen(b, FD_READ, fh, arg) makes of the
\* reactor, and the result of the fd_listen
Swap(r, t, a, b) == fd_listen(fd_close(r, t, a), t, b, FD_READ, "H")

\* C15: when the handler of a ready handle a closes a and registers another
\* handle b, the loop of fd_poll ends without error, re->nfds is afterwards
\* what it was before the handler ran, and the next wait watches b and no
\* longer watches a
C15_SwapInHandler ==
    \A t \in Threads : \A a, b \in LoopPair :
        InHandlerOf(t, a, b) =>
            With(Swap(re, t, a, b), LAMBDA x :
                x.err = OK =>
                    With(AfterHandler(x.re, lp[t]), LAMBDA p :
                        /\ p.ok
                        /\ p.re.nfds = re.nfds
                        /\ WatchedFd(p.re, b)
                        /\ ~WatchedFd(p.re, a)))

\* the handles of the events epoll_wait or kevent reported after the one
\* at l.i, whose records exist and have flags and a handler
PendingFds(r, l) ==
    {r.fhs[r.events[k].ptr].fd : k \in {j \in DOMAIN r.events :
        /\ j > l.i + 1
        /\ r.fhs[r.events[j].ptr].live
        /\ r.fhs[r.events[j].ptr].flags # 0
        /\ r.fhs[r.events[j].ptr].fh # NULL}}
    \cup
    {r.fhs[r.evlist[k].udata].fd : k \in {j \in DOMAIN r.evlist :
        /\ j > l.i + 1
        /\ r.fhs[r.evlist[j].udata].live
        /\ r.fhs[r.evlist[j].udata].flags # 0
        /\ r.fhs[r.evlist[j].udata].fh # NULL}}

\* C30: when a handler has called poll_method_set during a pass of the
\* loop of fd_poll, the pass stops when that handler returns: no other
\* handler of the batch is called, re->update is cleared, re_main does not
\* return but goes on with tmr_poll and the next iteration, and the handles
\* that were reported ready and not dispatched are watched by the next
\* wait, which reports them
C30_SwitchKeepsPending ==
    [][\A t \in Threads :
          (pc[t] = "cb" /\ re.update /\ pc'[t] # "cb") =>
              /\ pc'[t] = "tmr"
              /\ ~re'.update
              /\ \A fd \in PendingFds(re, lp[t]) : WatchedFd(re', fd)]_vars

----------------------------------------------------------------------------
(* Registration from a foreign thread, under SpecWin *)

\* C13: a handle a foreign thread registers between re_thread_enter and
\* re_thread_leave while the thread of the reactor is in re_main, possibly
\* blocked in the wait, gets its readiness delivered within one wait
\* cycle, with every polling method: the wait a thread is blocked in
\* returns when a registered handle that has a handler becomes ready
C13_WaitWatchesRegistered ==
    \A t \in Threads :
        pc[t] = "wait" =>
            \A id \in Active :
                re.fhs[id].fh # NULL =>
                    WaitResult(re, lp[t], {re.fhs[id].fd}).n > 0

\* the positions of the readiness entries of the last wait: the events
\* epoll_wait or kevent wrote, the slots poll was handed, the fds select
\* looked at
Positions(r, l) ==
    CASE r.method = "EPOLL"  -> 0..(Len(r.events) - 1)
      [] r.method = "KQUEUE" -> 0..(Len(r.evlist) - 1)
      [] r.method = "POLL"   -> {j \in DOMAIN r.fds : j < l.nfds}
      [] r.method = "SELECT" -> 0..(l.nfds - 1)
      [] OTHER -> {}

\* the positions from l.i on whose entry reports readiness for a record
\* that exists, has a handler and an index
Undispatched(r, l) ==
    {j \in Positions(r, l) :
        /\ j >= l.i
        /\ With(DispatchEntry(r, [l EXCEPT !.i = j]), LAMBDA d :
               /\ d.kind = "fhs"
               /\ r.fhs[d.id].fh # NULL
               /\ r.fhs[d.id].index >= 0)}

\* C29: in one pass of the loop of fd_poll every readiness entry the wait
\* reported whose record has a handler and an index >= 0 gets its handler
\* called, also when the number of registered handles changed during the
\* wait: when the loop ends without re->update having stopped it, no such
\* entry is left
C29_EveryEntryDispatched ==
    \A t \in Threads :
        (pc[t] = "disp" /\ ~(lp[t].n > 0 /\ lp[t].i < lp[t].nfds)) =>
            Undispatched(re, lp[t]) = {}

----------------------------------------------------------------------------
(* poll_method_set on the registries fd_listen and fd_close build, under
   SpecReg *)

\* the next wait of fd_poll reports the handle of entry id when it becomes
\* ready
Watched(r, id) == WaitResult(r, PollLocals(r, NoLoop), {r.fhs[id].fd}).n > 0

\* C14: after a poll_method_set that succeeded, the state of the new
\* polling method watches every handle record with a non-empty interest
\* mask, so that the next wait reports its readiness, whatever calls of
\* fd_listen and fd_close built the registry
C14_RebuildWatchesAll ==
    \A m \in Methods :
        With(poll_method_set(re, m), LAMBDA x :
            x.err = OK =>
                \A id \in FhsIds :
                    (x.re.fhs[id].live /\ x.re.fhs[id].flags # 0) => Watched(x.re, id))

\* C26: poll_method_set(m) called again right after poll_method_set(m)
\* changes nothing, for every method compiled in and every registry: the
\* reactor (method, update flag, state of the polling method, registry,
\* re->nfds) after the second call is the reactor after the first, and the
\* second call succeeds when the first did
C26_SetMethodTwice ==
    \A m \in Methods :
        With(poll_method_set(re, m), LAMBDA x :
            With(poll_method_set(x.re, m), LAMBDA y :
                /\ y.re = x.re
                /\ x.err = OK => y.err = OK))

\* a poll_method_set to another method succeeds on a registry with a
\* handle that has flags and a handler, and changes the reactor
C26_SwitchWithHandles ==
    \E m \in Methods : \E id \in Active :
        /\ re.method \notin {METHOD_NULL, m}
        /\ re.fhs[id].fh # NULL
        /\ poll_method_set(re, m).err = OK
        /\ poll_method_set(re, m).re # re
        /\ Watched(poll_method_set(re, m).re, id)

----------------------------------------------------------------------------
(* Signals, under SpecThr *)

\* C16: when a hooked signal is delivered while a thread is blocked in the
\* wait of fd_poll, re_main does not return: the wait fails with EINTR, the
\* thread comes back to the top of the loop, where it calls signalh once
\* with the latched signal number, outside the signal handler; re->sig is
\* 0 when signalh has returned, and the loop goes on with the test of
\* re->polling and the next wait
C16_SignalAtTop ==
    [][\A t \in Threads :
          /\ (pc[t] = "relock" /\ lp[t].n < 0 /\ lp[t].err = "EINTR") =>
                 pc'[t] \in {"relock", "top"}
          /\ (pc[t] = "top" /\ lp[t].signalh /\ re.sig # 0 /\ pc'[t] # "top") =>
                 pc'[t] = "sigcb" /\ re'.sig = re.sig
          /\ (pc[t] # "sigcb" /\ pc'[t] = "sigcb") => pc[t] = "top"
          /\ (pc[t] = "sigcb" /\ pc'[t] # "sigcb") =>
                 pc'[t] = "chk" /\ re'.sig = 0
          /\ (pc[t] = "chk" /\ pc'[t] # "chk") =>
                 IF re.polling THEN pc'[t] = "wait"
                 ELSE pc'[t] = "out" /\ lp'[t].err = OK]_vars

\* signalh runs on a thread whose wait failed with EINTR
C16_SignalhAfterIntr ==
    \E t \in Threads :
        pc[t] = "sigcb" /\ lp[t].err = "EINTR" /\ lp[t].signalh /\ re.sig # 0

----------------------------------------------------------------------------
(* Errors of the wait and of poll_setup, under SpecErr *)

\* C21: a wait that fails with EINTR is never surfaced by re_main: the
\* thread goes back to the top of the loop, and re_main returns EINTR in no
\* execution; a wait that fails with any other error makes re_main leave
\* the loop and return that error, with re->polling cleared and the mutex
\* released
C21_IntrNotSurfaced ==
    [][\A t \in Threads :
          /\ ret'[t] # "EINTR"
          /\ (pc[t] = "relock" /\ lp[t].n < 0 /\ lp[t].err = "EINTR") =>
                 pc'[t] \in {"relock", "top"}
          /\ (pc[t] = "relock" /\ lp[t].n < 0 /\ lp[t].err # "EINTR") =>
                 \/ pc'[t] = "relock"
                 \/ pc'[t] = "out" /\ lp'[t].err = lp[t].err
          /\ (pc[t] = "out" /\ pc'[t] # "out") =>
                 /\ pc'[t] = "idle"
                 /\ ret'[t] = lp[t].err
                 /\ ~re'.polling
                 /\ mtx' # t]_vars

\* re_main has returned the error of a failed wait
C21_WaitErrorReturned ==
    \E t \in Threads :
        pc[t] = "idle" /\ ret[t] = "EBADF" /\ ~re.polling /\ mtx # t

\* C22: when the wait fails with EBADF, re_main retries once: it goes back
\* to the top of the loop and starts another wait, and returns EBADF only
\* when that wait fails with EBADF again.  No wait follows a wait that
\* failed with EBADF, so every such failure is a first one
C22_BadHandleRetriedOnce ==
    [][\A t \in Threads :
          (pc[t] = "relock" /\ lp[t].n < 0 /\ lp[t].err = "EBADF") =>
              pc'[t] \in {"relock", "top"}]_vars

\* C27: from re_lock in re_main to the re_unlock before it returns, the
\* thread that runs the loop holds the mutex at every step except during
\* the wait of fd_poll: the signal handler, the handlers of fds, the flush
\* of the delete list and tmr_poll run with the mutex held; every exit
\* after re_lock releases it once, and the exits before re_lock (EALREADY,
\* a poll_setup that failed) release nothing
C27_LoopHoldsMutex ==
    [][\A t \in Threads :
          /\ pc'[t] \in {"top", "chk", "disp", "cb", "sigcb", "tmr", "tmrh", "out"} =>
                 mtx' = t
          /\ pc'[t] = "wait" => mtx' # t
          /\ (pc[t] = "out" /\ pc'[t] = "idle") => (mtx = t /\ mtx' = NoThread)
          /\ (pc[t] = "setup" /\ pc'[t] = "idle") => mtx' = mtx
          /\ (pc[t] = "idle" /\ ret'[t] # ret[t]) => mtx' = mtx]_vars

\* re_main is about to return the error of a wait and holds the mutex it
\* released for that wait
C27_ErrorExitHoldsMutex ==
    \E t \in Threads :
        pc[t] = "out" /\ mtx = t /\ lp[t].n < 0 /\ lp[t].err \in WaitErrors

\* C28: once the thread of the reactor has called re_cancel from inside the
\* loop of re_main (from the signal handler, the handler of a fd or the
\* handler of a timer), re_main starts no further wait and returns 0 at the
\* next test of re->polling at the top of the loop; after a re_cancel from
\* the signal handler that test comes next, in the same iteration
C28_CancelFromHandler ==
    [][\A t \in Threads :
          (t = re.tid /\ InLoop(t) /\ pc[t] \notin {"wait", "relock"} /\ ~re.polling) =>
              /\ pc'[t] \in {"top", "chk", "disp", "cb", "sigcb", "tmr", "tmrh", "out"}
              /\ ~re'.polling
              /\ (pc[t] = "chk" \/ (pc[t] = "top" /\ re.sig = 0)) =>
                     \/ pc'[t] = pc[t]
                     \/ pc'[t] = "out" /\ lp'[t].err = OK
              /\ pc[t] = "sigcb" => pc'[t] \in {"sigcb", "chk"}]_vars

----------------------------------------------------------------------------
(* The reactors of the process, under SpecLife *)

\* C24 as stated: re_thread_init on a thread whose key holds a reactor fails
\* with EALREADY and changes nothing; the first re_thread_init of the
\* process that succeeds publishes its reactor in re_global, and every
\* later one leaves re_global as it is
C24_OnlyFirstInitPublishes ==
    \A t \in Threads : \A new \in NewRe :
        With(re_thread_init(proc, t, new), LAMBDA x :
            /\ proc.key[t] # 0 => (x.err = "EALREADY" /\ x.p = proc)
            /\ x.err = OK =>
                   x.p.re_global = IF proc.inited THEN proc.re_global ELSE new)

\* C24, amended: re_thread_init on a thread whose key holds a reactor fails
\* with EALREADY and changes nothing; a re_thread_init that succeeds
\* publishes its reactor in re_global when re_global is null, whether or
\* not it is the first of the process, and leaves re_global as it is
\* otherwise
C24_InitPublishesWhenNull ==
    \A t \in Threads : \A new \in NewRe :
        With(re_thread_init(proc, t, new), LAMBDA x :
            /\ proc.key[t] # 0 => (x.err = "EALREADY" /\ x.p = proc)
            /\ x.err = OK =>
                   /\ x.p.key[t] = new
                   /\ x.p.re_global = IF proc.re_global = 0 THEN new
                                      ELSE proc.re_global)

\* a re_thread_init has succeeded, a thread holds a reactor that is not the
\* one published, and a further re_thread_init can succeed
C24_SecondReactor ==
    /\ proc.inited
    /\ proc.re_global # 0
    /\ \E t \in Threads : proc.key[t] \notin {0, proc.re_global}
    /\ \E t \in Threads : \E new \in NewRe : re_thread_init(proc, t, new).err = OK

\* C25: re_global is null or points to a reactor that exists: every way of
\* destroying the reactor it points to, re_thread_close and the destructor
\* of key at thread exit, clears it
C25_FallbackAlive ==
    proc.re_global # 0 => proc.re_global \in proc.heap

----------------------------------------------------------------------------
(* Deregistration and the delete list, under SpecSwap *)

\* the readiness entry at position l.i was reported for a handle that is no
\* longer registered: the record epoll_wait or kevent reported is destroyed
\* or has no flags, the slot poll reported holds the sentinel, the fd select
\* reported has no record with flags
EntryClosed(r, l) ==
    CASE r.method = "EPOLL" ->
           /\ l.i + 1 <= Len(r.events)
           /\ r.events[l.i + 1].ptr # 0
           /\ \/ ~r.fhs[r.events[l.i + 1].ptr].live
              \/ r.fhs[r.events[l.i + 1].ptr].flags = 0
      [] r.method = "KQUEUE" ->
           /\ l.i + 1 <= Len(r.evlist)
           /\ r.evlist[l.i + 1].udata # 0
           /\ \/ ~r.fhs[r.evlist[l.i + 1].udata].live
              \/ r.fhs[r.evlist[l.i + 1].udata].flags = 0
      [] r.method = "POLL" ->
           /\ l.i \in DOMAIN r.fds
           /\ r.fds[l.i].revents # {}
           /\ r.fds[l.i].fd = -1
      [] r.method = "SELECT" ->
           /\ l.i \in l.rfds \cup l.wfds \cup l.efds
           /\ fhs_lookup_active(r, l.i) = 0
      [] OTHER -> FALSE

\* C31: a handle that an earlier handler of the same pass deregistered, and
\* that was not registered again, does not get its handler called later in
\* that pass although the wait reported it: at its readiness entry the loop
\* of fd_poll finds no record, or a record without handler or index, and
\* goes on without calling a handler
C31_ClosedNotCalled ==
    [][\A t \in Threads :
          (/\ pc[t] = "disp"
           /\ lp[t].n > 0 /\ lp[t].i < lp[t].nfds
           /\ EntryClosed(re, lp[t])) =>
              pc'[t] \in {"disp", "tmr"}]_vars

\* a thread is inside the loop of fd_poll that calls the handlers, or in a
\* handler that loop called
Dispatching == \E t \in Threads : pc[t] \in {"disp", "cb"}

\* C32: when fd_close empties the interest of a registered handle: with
\* reuse enabled its record stays in the hash with index -1, is no longer
\* counted in re->nfds, and a later fd_listen of the same handle uses that
\* same record; with reuse disabled the record is destroyed at once if and
\* only if no dispatch is in progress, and is on the delete list otherwise
C32_ReusePolicy ==
    \A t \in Threads : \A fd \in Handles :
        (UserCtx(t) /\ re_thread_check(re, t) = OK /\ fhs_lookup_active(re, fd) # 0) =>
            With(fhs_lookup_active(re, fd), LAMBDA id :
            With(fd_close(re, t, fd), LAMBDA x :
                IF re.fhs_reuse
                THEN /\ x.fhs[id].live /\ fhs_lookup(x, fd) = id
                     /\ x.fhs[id].index = -1 /\ x.fhs[id].flags = 0
                     /\ x.nfds = re.nfds - 1
                     /\ With(fd_listen(x, t, fd, FD_READ, "H"), LAMBDA y :
                            y.err = OK => fhs_lookup_active(y.re, fd) = id)
                ELSE /\ ~x.fhs[id].live <=> ~Dispatching
                     /\ Dispatching =>
                            \E k \in DOMAIN x.fhs_delete : x.fhs_delete[k] = id))

----------------------------------------------------------------------------
(* re_thread_enter and re_thread_leave, under SpecThr *)

\* C33 as stated: re_thread_enter returns, for any calling thread, holding
\* the mutex with re->thread_enter set and fhs_reuse disabled; the matching
\* re_thread_leave clears re->thread_enter, releases the mutex and leaves
\* fhs_reuse disabled
C33_EnterSetsFlag ==
    [][\A t \in Threads :
          /\ (pc[t] = "idle" /\ pc'[t] = "win") =>
                 (mtx' = t /\ re'.thread_enter /\ ~re'.fhs_reuse)
          /\ (pc[t] = "win" /\ pc'[t] = "idle") =>
                 (mtx' = NoThread /\ ~re'.thread_enter /\ ~re'.fhs_reuse)]_vars

\* C33, amended: re_thread_enter returns holding the mutex with fhs_reuse
\* disabled; it sets re->thread_enter when the caller is not the thread of
\* the reactor and leaves it as it is when the caller is that thread; the
\* matching re_thread_leave clears re->thread_enter, releases the mutex and
\* leaves fhs_reuse disabled
C33_EnterSetsFlagForeign ==
    [][\A t \in Threads :
          /\ (pc[t] = "idle" /\ pc'[t] = "win") =>
                 /\ mtx' = t
                 /\ ~re'.fhs_reuse
                 /\ re'.thread_enter = IF t # re.tid THEN TRUE ELSE re.thread_enter
          /\ (pc[t] = "win" /\ pc'[t] = "idle") =>
                 (mtx' = NoThread /\ ~re'.thread_enter /\ ~re'.fhs_reuse)]_vars

\* the thread of the reactor is between re_thread_enter and re_thread_leave:
\* it holds the mutex, fhs_reuse is disabled and re->thread_enter is clear
C33_OwnerInWindow ==
    /\ pc[re.tid] = "win"
    /\ mtx = re.tid
    /\ ~re.fhs_reuse
    /\ ~re.thread_enter

----------------------------------------------------------------------------
(* fd_setsize, under SpecReg *)

\* C34: fd_setsize(n) with n > 0 succeeds and sets re->maxfds only when it
\* is 0, and changes nothing else; fd_setsize(0) succeeds, releases the
\* state of the polling methods and resets re->maxfds to 0; the fd_setsize
\* of a poll_setup that succeeds (first fd_listen or re_main) sets
\* re->maxfds to DEFAULT_MAXFDS when it is 0 and leaves it otherwise
C34_SetsizeFirstOnly ==
    /\ \A n \in 1..(DEFAULT_MAXFDS + RlimExtra) :
          With(fd_setsize(re, n), LAMBDA x :
              /\ x.err = OK
              /\ x.re = [re EXCEPT !.maxfds = IF re.maxfds = 0 THEN n ELSE re.maxfds])
    /\ With(fd_setsize(re, 0), LAMBDA x :
          /\ x.err = OK
          /\ x.re.maxfds = 0
          /\ DOMAIN x.re.fds = {} /\ x.re.epfd = -1 /\ x.re.kqfd = -1
          /\ ~x.re.events_alloc /\ ~x.re.evlist_alloc)
    /\ With(poll_setup(re), LAMBDA x :
          x.err = OK =>
              x.re.maxfds = IF re.maxfds = 0 THEN DEFAULT_MAXFDS ELSE re.maxfds)
    /\ \A t \in Threads : \A fd \in Handles :
          With(fd_listen(re, t, fd, FD_READ, "H"), LAMBDA x :
              x.err = OK =>
                  x.re.maxfds = IF re.maxfds = 0 THEN DEFAULT_MAXFDS ELSE re.maxfds)

\* a maximum other than the default is configured, a handle is registered
\* under it, and a fd_setsize with the default would find it set
C34_ConfiguredBefore ==
    /\ re.maxfds \notin {0, DEFAULT_MAXFDS}
    /\ Active # {}
    /\ fd_setsize(re, DEFAULT_MAXFDS).re.maxfds = re.maxfds

----------------------------------------------------------------------------
(* The delete list, under Spec *)

\* C35: every record on the delete list has an empty interest mask, and the
\* list_flush at the end of the loop of fd_poll destroys no registered
\* handle: a handle that was closed with fhs_reuse disabled while
\* re->polling was set and registered again before the flush is still
\* registered after it, its record exists and re->nfds counts it
C35_DrainKeepsRegistered ==
    [][\A t \in Threads :
          (pc[t] = "disp" /\ pc'[t] = "tmr") =>
              /\ \A k \in DOMAIN re.fhs_delete : re.fhs[re.fhs_delete[k]].flags = 0
              /\ \A id \in FhsIds :
                    (re.fhs[id].live /\ re.fhs[id].flags # 0) =>
                        /\ re'.fhs[id].live
                        /\ re'.fhs[id].flags = re.fhs[id].flags
                        /\ fhs_lookup_active(re', re.fhs[id].fd) = id
              /\ re'.nfds = re.nfds]_vars

----------------------------------------------------------------------------
(* The release of a record, under SpecReg *)

\* fd_close(fd) by thread t reaches the release block of fd_listen, takes
\* the mem_deref branch, which destroys the record (its only reference is
\* the one mem_zalloc gave), and then executes `fhs->index = -1` on it
StaleWrite(r, t, fd) ==
    /\ re_thread_check(r, t) = OK
    /\ fd # BAD_SOCK
    /\ fhs_update(r, fd, 0, NULL).err = OK
    /\ ~(r.method = "EPOLL" /\ r.epfd < 0)
    /\ ~r.fhs_reuse
    /\ ~r.polling

\* C36: fd_listen does not read or write a record after it has released
\* it: no fd_close that destroys the record (fhs_reuse disabled, re->polling
\* clear) accesses a field of it afterwards
C36_NoAccessAfterRelease ==
    \A t \in Threads : \A fd \in Handles :
        UserCtx(t) => ~StaleWrite(re, t, fd)

----------------------------------------------------------------------------
(* The slots of poll, under SpecSwap *)

\* C37: with METHOD_POLL, after any sequence of fd_listen and fd_close,
\* every record with a non-empty interest mask has an index below re->nfds,
\* and the slot re->fds[index] holds its fd and the events of its flags, so
\* every registered handle is in the first re->nfds slots, which the next
\* poll is handed; the slot of a record with an empty interest mask holds
\* the sentinel -1
C37_PollSlotsInRange ==
    re.method = "POLL" =>
        \A id \in Records :
            /\ re.fhs[id].flags # 0 =>
                   /\ re.fhs[id].index < re.nfds
                   /\ re.fhs[id].index \in DOMAIN re.fds
                   /\ re.fds[re.fhs[id].index].fd = re.fhs[id].fd
                   /\ re.fds[re.fhs[id].index].events = PollEvents(re.fhs[id].flags)
            /\ (re.fhs[id].flags = 0 /\ re.fhs[id].index \in DOMAIN re.fds) =>
                   re.fds[re.fhs[id].index].fd = -1

----------------------------------------------------------------------------
(* Signals delivered while signalh runs, under SpecSig *)

\* C38: no hooked signal is lost: a signal delivered while signalh runs for
\* an earlier one, after re->sig was read and before it is cleared, is
\* reported to signalh in a later iteration: when signalh returns while
\* re->sig holds a signal other than the one it was called with, re->sig
\* keeps that signal
C38_NoSignalLost ==
    [][\A t \in Threads :
          (pc[t] = "sigcb" /\ pc'[t] # "sigcb" /\ re.sig # lp[t].sig) =>
              re'.sig = re.sig]_vars

----------------------------------------------------------------------------
(* re->update at the start of a pass, under SpecLoop *)

\* C39: a pass of the loop of fd_poll is cut short only by a
\* poll_method_set a handler made during that pass: a poll_method_set made
\* outside the loop (before re_main, or by the poll_setup of the first
\* fd_listen or of re_main) does not make a later pass return after its
\* first handled entry.  The pass returns there when re->update is set, so
\* re->update is clear when the loop starts
C39_PassStartsClear ==
    [][\A t \in Threads :
          (pc[t] = "relock" /\ pc'[t] = "disp") => ~re.update]_vars

----------------------------------------------------------------------------
(* Reactors shared with re_thread_attach, under SpecLife *)

\* C40: a reactor shared through re_thread_attach is not destroyed while
\* the key of another thread holds it: after the re_thread_close or the
\* exit of one of the threads bound to it, the key of no thread holds a
\* reactor that does not exist; re_thread_detach clears the key of the
\* calling thread only and destroys nothing
C40_SharedReactorAlive ==
    /\ \A t \in Threads : proc.key[t] # 0 => proc.key[t] \in proc.heap
    /\ \A t \in Threads :
          With(re_thread_detach(proc, t), LAMBDA x :
              /\ x.heap = proc.heap
              /\ x.re_global = proc.re_global
              /\ \A u \in Threads \ {t} : x.key[u] = proc.key[u])

====
